---- MODULE Spec2Model ----
(***************************************************************************)
(* State-machine model of OverpassClient (client.ts): the LRU/TTL cache,   *)
(* the request methods (getElement / getElementsByBoundingBox /            *)
(* getElementsByRadius), the private query() pipeline                      *)
(* defer(post) |> tap(cache.set) |> retry({count, delay}) and retryAfter.  *)
(*                                                                         *)
(* rxjs retry({count, delay}) as used by query():                          *)
(*   - count <= 0: the operator is the identity (no error handling);       *)
(*   - on a source error: if soFar++ < count then the delay callback is    *)
(*     called with (error, soFar), soFar already incremented, so the first *)
(*     failure is reported as attempt 1; an error of the notifier is       *)
(*     forwarded to the subscriber, its first value resubscribes.          *)
(* lru-cache: get() of a stale entry deletes it and answers undefined,     *)
(* get() of a fresh entry makes it most recently used; set() of a new key  *)
(* at capacity evicts the least recently used entry.                       *)
(*                                                                         *)
(* Time is counted in units of the cache TTL period (5 minutes); each      *)
(* cache entry carries its age, which stops counting once it is stale.     *)
(***************************************************************************)
EXTENDS Integers, Sequences, FiniteSets, TLC

\* ------------------------------------------------------------------ bounds
\* Largest maxRetries a client is constructed with.
MaxRetriesBound == 2
\* Capacity of the (injected) LRU cache.
CacheMax == 1
\* Largest maxRetries of a client that serves a single request (SoloSpec).
SoloMaxRetries == 3
LruMax == 2
\* Most subscriptions to one Observable that are followed.
MaxSubscriptions == 2

\* ------------------------------------------------------- program constants
\* ttl: 5 * 60 * 1000 ms, one unit of model time.
ttl == 1
\* Base of the backoff: Math.pow(2, attempt) * 1000 ms.
BaseDelayMs == 1000

\* ---------------------------------------------------------------- domains
\* Logical requests (one call of a request method, subscribed at most once).
Requests == {"r1", "r2"}
\* Cache keys (`${type}-${id}`, `bbox-...`, `radius-...`).
Keys == {"k1", "k2"}
\* lruCache.get() of an absent or stale key.
Undefined == "undefined"
\* response.data of a 200 response: two non-empty bodies and the empty body.
Payloads == {"", "p1", "p2"}
\* Math.random() in [0, 1), as thousandths.
RandomSamples == {0, 500, 999}
\* parseInt() of a string that does not start with digits; NaN * 1000 = NaN.
NaN == -1
\* response.headers['retry-after']: absent, or the header text.
NoHeader == "none"
RetryAfterHeaders == {NoHeader, "0", "1", "7", "soon"}
\* response.statusText: absent, or a reason phrase.
StatusTexts == {Undefined, "", "Reason"}
\* HTTP statuses of failed responses (418 stands for the unenumerated ones).
FailStatuses == {400, 418, 429, 500, 502, 503, 504}
RetryableStatuses == {429, 500, 502, 503, 504}

\* JavaScript truthiness of a cached value / header (if (cached), ?:).
Truthy(v) == v # Undefined /\ v # "" /\ v # NoHeader

\* maxRetries: the client's retry setting (constructor argument).
\* cache:      the client's lruCache, least recently used entry first; an
\*             entry is [key, value, age], age in TTL periods since set().
\* req:        per logical request, its position in the pipeline and what it
\*             has done so far:
\*   pc            idle | hit | miss | hitDelay | sending | waiting | done |
\*                 failed | abandonedInFlight | abandoned
\*   key           its cache key
\*   soFar         the retry operator's count of source errors
\*   invocations   transport calls (axios post) made for it
\*   notifications next/error notifications delivered to its subscriber
\*   last          the latest transport outcome (kind, status, retry-after)
\*   delay         the due time of the pending retry timer, in ms
\*   result        what was delivered: payload or error
\*   dropped       a lruCache.delete of this request removed an entry
\* cleared:    the latest operation on the client was clearCache().
VARIABLES maxRetries, cache, req, cleared, max, format, timeout, args, posted

vars == <<maxRetries, cache, req, cleared, max, format, timeout, args, posted>>
\* What the constructor fixes: this.maxRetries, the capacity of the cache,
\* this.format and this.timeout.
config == <<maxRetries, max, format, timeout>>
\* What each request was called with and what its post carries.
asked == <<args, posted>>

\* --------------------------------------------------------------- LRU cache
\* The cache is a sequence of entries, least recently used first.
IndexOf(c, k) ==
  IF \E i \in 1..Len(c) : c[i].key = k
  THEN CHOOSE i \in 1..Len(c) : c[i].key = k
  ELSE 0

RemoveAt(c, i) == SubSeq(c, 1, i - 1) \o SubSeq(c, i + 1, Len(c))

\* Mutant of IsStale: entries never expire.
IsStale_Never(e) == FALSE

\* An entry is stale once its age exceeds the ttl.
IsStale(e) == e.age > ttl

\* lruCache.get(key): the value answered.
CacheGetValue(c, k) ==
  LET i == IndexOf(c, k) IN
  IF i = 0 \/ IsStale(c[i]) THEN Undefined ELSE c[i].value

\* Mutant of CacheGetStore: a fresh entry keeps its place on a lookup.
CacheGetStore_NoTouch(c, k) ==
  LET i == IndexOf(c, k) IN
  IF i = 0 THEN c
  ELSE IF IsStale(c[i]) THEN RemoveAt(c, i)
  ELSE c

\* lruCache.get(key): the store afterwards (stale entry dropped, fresh entry
\* moved to the most-recently-used end).
CacheGetStore(c, k) ==
  LET i == IndexOf(c, k) IN
  IF i = 0 THEN c
  ELSE IF IsStale(c[i]) THEN RemoveAt(c, i)
  ELSE RemoveAt(c, i) \o <<c[i]>>

\* lruCache.delete(key).
CacheDelete(c, k) ==
  LET i == IndexOf(c, k) IN IF i = 0 THEN c ELSE RemoveAt(c, i)

\* lruCache.set(key, value): the entry's age starts again.
\* Mutant of CacheSet: a new key is added without evicting.
CacheSet_NoEvict(c, k, v) ==
  LET i == IndexOf(c, k)
      e == [key |-> k, value |-> v, age |-> 0]
  IN IF v = Undefined THEN CacheDelete(c, k)
     ELSE IF i # 0 THEN RemoveAt(c, i) \o <<e>>
     ELSE c \o <<e>>

CacheSet(c, k, v) ==
  LET i == IndexOf(c, k)
      e == [key |-> k, value |-> v, age |-> 0]
  IN IF v = Undefined THEN CacheDelete(c, k)
     ELSE IF i # 0 THEN RemoveAt(c, i) \o <<e>>
     ELSE IF Len(c) >= max THEN Tail(c) \o <<e>>
     ELSE c \o <<e>>

\* Mutant of CacheClear: the entries stay.
CacheClear_Noop(c) == c

\* lruCache.clear().
CacheClear(c) == << >>

\* The cache physically holds an entry for k.
HasEntry(c, k) == IndexOf(c, k) # 0
\* The cache holds an unexpired entry for k.
HasFresh(c, k) == HasEntry(c, k) /\ ~IsStale(c[IndexOf(c, k)])
\* The cache holds an unexpired entry for k with value v.
Holds(c, k, v) == HasFresh(c, k) /\ c[IndexOf(c, k)].value = v

\* --------------------------------------------------------------- transport
NoData == "nodata"

OkOutcomes ==
  {[kind |-> "ok", status |-> 200, retryAfter |-> NoHeader,
    statusText |-> Undefined, data |-> p] : p \in Payloads}
\* An Axios error carrying a response.
\* A retry-after header is sampled on 429 and 503 responses, a reason phrase
\* on 418 and 500 responses; the other responses carry neither.
HttpOutcomes ==
  {o \in [kind : {"http"}, status : FailStatuses, retryAfter : RetryAfterHeaders,
          statusText : StatusTexts, data : {NoData}] :
      /\ (o.retryAfter # NoHeader => o.status \in {429, 503})
      /\ (o.statusText # Undefined => o.status \in {418, 500})}
\* An Axios error without a response (connection-level failure).
NetworkOutcome ==
  [kind |-> "network", status |-> 0, retryAfter |-> NoHeader,
   statusText |-> Undefined, data |-> NoData]
\* An error that is not an Axios error.
OtherOutcome ==
  [kind |-> "other", status |-> 0, retryAfter |-> NoHeader,
   statusText |-> Undefined, data |-> NoData]
FailOutcomes == HttpOutcomes \cup {NetworkOutcome, OtherOutcome}
Outcomes == OkOutcomes \cup FailOutcomes

\* axios.isAxiosError(error)
IsAxiosError(o) == o.kind \in {"http", "network"}
\* error.response is defined
HasResponse(o) == o.kind = "http"

\* ------------------------------------------------------------------ errors
\* The query text a request method builds for a key.
QueryText(k) == IF k = "k1" THEN "node(1); out;" ELSE "way(2); out;"

NoQuery == ""

\* new OverpassError(message, errors, query): the message text, as its parts.
OverpassError(message, errors, query) ==
  [class |-> "OverpassError",
   message |-> <<"Overpass Error: ">>
               \o (IF query # NoQuery THEN <<query, " ">> ELSE << >>)
               \o message
               \o (IF Len(errors) > 0 THEN <<"\nDetails: ">> \o errors ELSE << >>),
   data |-> NoData]

\* The error the transport (or the promise chain) rejected with.
RawError(o) ==
  [class |-> IF IsAxiosError(o) THEN "AxiosError" ELSE "Error",
   message |-> IF HasResponse(o)
               THEN <<"Request failed with status code ", ToString(o.status)>>
               ELSE IF IsAxiosError(o) THEN <<"Network Error">> ELSE <<"Error">>,
   data |-> NoData]

NoResult == [class |-> "none", message |-> << >>, data |-> NoData]
PayloadResult(p) == [class |-> "payload", message |-> << >>, data |-> p]

\* ------------------------------------------------------------- retry delay
\* retryAfterMs of retryAfter(): null, or a number of milliseconds.
Null == << >>

\* parseInt(text, 10)
ParseInt(h) == IF h = "0" THEN 0 ELSE IF h = "1" THEN 1 ELSE IF h = "7" THEN 7 ELSE NaN

\* x * 1000 in JavaScript arithmetic.
TimesThousand(x) == IF x = NaN THEN NaN ELSE x * 1000

RECURSIVE Pow2(_)
Pow2(n) == IF n <= 0 THEN 1 ELSE 2 * Pow2(n - 1)

\* retryAfter(attempt, retryAfterMs): the due times timer() may be given.
RetryAfterDelays(attempt, retryAfterMs) ==
  IF retryAfterMs # Null
  THEN {retryAfterMs[1]}
  ELSE LET baseDelay == Pow2(attempt) * BaseDelayMs
       IN {(r * baseDelay) \div 1000 : r \in RandomSamples}

\* What the retry operator does with a source error: the error it passes to
\* the subscriber or the due times of the notifier it waits for, and whether
\* the delay callback ran (handled).
Throw(e) == [throws |-> TRUE, error |-> e, delays |-> {}, handled |-> TRUE]
Timer(ds) == [throws |-> FALSE, error |-> NoResult, delays |-> ds, handled |-> TRUE]
Rethrow(o) == [throws |-> TRUE, error |-> RawError(o), delays |-> {}, handled |-> FALSE]

\* Mutant of Case400: a 400 is handled like a transient server error.
Case400_Retries(o, attempt, k) == Timer(RetryAfterDelays(attempt, Null))

\* case 400 of the status switch: Bad Request, never retried.
Case400(o, attempt, k) ==
  Throw(OverpassError(<<"Bad Request Error">>, << >>, QueryText(k)))

\* Mutant of Case429: the retry-after header is ignored.
Case429_IgnoresHeader(o, attempt, k) == Timer(RetryAfterDelays(attempt, Null))

\* case 429 of the status switch: retry after the header's seconds, if any.
Case429(o, attempt, k) ==
  Timer(RetryAfterDelays(attempt,
          IF Truthy(o.retryAfter)
          THEN <<TimesThousand(ParseInt(o.retryAfter))>>
          ELSE Null))

\* Mutant of CaseServerError: a retry-after header is honored on 5xx as well.
CaseServerError_HonorsHeader(o, attempt, k) == Case429(o, attempt, k)

\* case 500 / 502 / 503 / 504 of the status switch: retry after a backoff.
CaseServerError(o, attempt, k) == Timer(RetryAfterDelays(attempt, Null))

\* Mutant of CaseDefault: the message lacks the fallback text.
CaseDefault_NoFallback(o, attempt, k) ==
  Throw(OverpassError(
    <<"[", ToString(o.status), "] - ">>
    \o (IF o.statusText # Undefined THEN <<o.statusText>> ELSE << >>),
    << >>, NoQuery))

\* default of the status switch: any other status is not retried.
CaseDefault(o, attempt, k) ==
  Throw(OverpassError(
    (IF o.status # 0 THEN <<"[", ToString(o.status), "] - ">> ELSE << >>)
    \o <<IF o.statusText # Undefined THEN o.statusText
         ELSE "Unknown error occured">>,
    << >>, NoQuery))

\* Mutant of CaseNoResponse: a connection-level failure is retried.
CaseNoResponse_Retries(o, attempt, k) == Timer(RetryAfterDelays(attempt, Null))

\* No response at all (connection-level failure): not retried.
CaseNoResponse(o, attempt, k) ==
  Throw(OverpassError(<<"Something went wrong">>, << >>, QueryText(k)))

\* The delay callback of retry(): (error, attempt) -> throwError(...) | timer.
RetryDelay(o, attempt, k) ==
  IF IsAxiosError(o)
  THEN IF attempt >= maxRetries
       THEN Throw(OverpassError(
              <<"Max retries exceeded. Request failed ",
                IF HasResponse(o) /\ o.statusText # Undefined THEN o.statusText ELSE "">>,
              << >>, QueryText(k)))
       ELSE IF HasResponse(o)
       THEN CASE o.status = 400 -> Case400(o, attempt, k)
              [] o.status = 429 -> Case429(o, attempt, k)
              [] o.status \in {500, 502, 503, 504} -> CaseServerError(o, attempt, k)
              [] OTHER -> CaseDefault(o, attempt, k)
       ELSE CaseNoResponse(o, attempt, k)
  ELSE Throw(OverpassError(<<"Unknown error occurred">>, << >>, QueryText(k)))

\* Mutant of RetryDelayCache: the callback does not touch the cache.
RetryDelayCache_Keep(c, o, k) == c

\* The cache after the delay callback ran: lruCache.delete on an Axios error.
RetryDelayCache(c, o, k) == IF IsAxiosError(o) THEN CacheDelete(c, k) ELSE c

\* Mutant of RetryHandles: the client counts the failures of all its requests
\* together.
RetryHandles_Shared(soFar) ==
  maxRetries > 0 /\ req["r1"].soFar + req["r2"].soFar < maxRetries

\* retry({count: this.maxRetries, ...}): whether a source error reaches the
\* delay callback (count > 0 and soFar++ < count) or is passed on as it is.
RetryHandles(soFar) == maxRetries > 0 /\ soFar < maxRetries

\* Mutant of RetryOperator: transient statuses are retried without any limit.
RetryOperator_NoLimit(o, soFar, k) ==
  IF HasResponse(o) /\ o.status \in RetryableStatuses
  THEN Timer(RetryAfterDelays(soFar + 1, Null))
  ELSE RetryDelay(o, soFar + 1, k)

\* retry({count, delay}) on a source error o after soFar earlier errors.
RetryOperator(o, soFar, k) ==
  IF RetryHandles(soFar) THEN RetryDelay(o, soFar + 1, k) ELSE Rethrow(o)

\* ---------------------------------------------------------------- requests
NoKey == "nokey"
NoOutcome == [kind |-> "none", status |-> 0, retryAfter |-> NoHeader]
Seen(o) == [kind |-> o.kind, status |-> o.status, retryAfter |-> o.retryAfter]

NoArgs == [method |-> "none"]
NoText == << >>

\* The defaults of the constructor for format and timeout; the arguments of
\* the requests are not followed.
NoRequestText ==
  /\ format = "json"
  /\ timeout = 60
  /\ args = [r \in Requests |-> NoArgs]
  /\ posted = [r \in Requests |-> NoText]

IdleRequest ==
  [pc |-> "idle", key |-> NoKey, soFar |-> 0, invocations |-> 0,
   notifications |-> 0, last |-> NoOutcome, delay |-> 0,
   result |-> NoResult, dropped |-> FALSE]

Init ==
  /\ maxRetries \in 0..MaxRetriesBound
  /\ cache = << >>
  /\ cleared = FALSE
  /\ req = [r \in Requests |-> IdleRequest]
  /\ max = CacheMax
  /\ NoRequestText

\* if (cached) return of(cached).pipe(delay(200)); else return this.query(...)
Lookup(q, k, cached) ==
  IF Truthy(cached)
  THEN [q EXCEPT !.pc = "hit", !.key = k, !.result = PayloadResult(cached)]
  ELSE [q EXCEPT !.pc = "miss", !.key = k]

\* getElement / getElementsByBoundingBox / getElementsByRadius: the cache
\* lookup made when the method is called.
CachedOrQuery(r, k) ==
  /\ req[r].pc = "idle"
  /\ req' = [req EXCEPT ![r] = Lookup(req[r], k, CacheGetValue(cache, k))]
  /\ cache' = CacheGetStore(cache, k)
  /\ cleared' = FALSE
  /\ UNCHANGED config

\* A call of a request method, its arguments reduced to the key they give.
Call(r, k) ==
  /\ CachedOrQuery(r, k)
  /\ UNCHANGED asked

\* Mutant of Subscribe: a miss joins the pending post of another request for
\* the same key instead of making its own.
Subscribe_Coalesced(r) ==
  /\ req[r].pc \in {"hit", "miss"}
  /\ req' = [req EXCEPT ![r] =
               IF req[r].pc = "hit"
               THEN [@ EXCEPT !.pc = "hitDelay"]
               ELSE IF \E s \in Requests \ {r} :
                         req[s].pc = "sending" /\ req[s].key = req[r].key
                    THEN [@ EXCEPT !.pc = "sending"]
                    ELSE [@ EXCEPT !.pc = "sending", !.invocations = @ + 1]]
  /\ cleared' = FALSE
  /\ UNCHANGED <<config, asked, cache>>

\* Mutant of Subscribe: the cache is looked up again on subscription, and a
\* miss whose key has been cached meanwhile is served from the cache.
Subscribe_Rechecks(r) ==
  /\ req[r].pc \in {"hit", "miss"}
  /\ req' = [req EXCEPT ![r] =
               IF req[r].pc = "hit"
               THEN [@ EXCEPT !.pc = "hitDelay"]
               ELSE IF Truthy(CacheGetValue(cache, req[r].key))
                    THEN [@ EXCEPT !.pc = "hitDelay",
                            !.result = PayloadResult(CacheGetValue(cache, req[r].key))]
                    ELSE [@ EXCEPT !.pc = "sending", !.invocations = @ + 1]]
  /\ cleared' = FALSE
  /\ UNCHANGED <<config, asked, cache>>

\* Subscription to the Observable a request method returned: of(cached) with
\* its 200 ms delay, or defer(() => axiosInstance.post(...)).
Subscribe(r) ==
  /\ req[r].pc \in {"hit", "miss"}
  /\ req' = [req EXCEPT ![r] =
               IF req[r].pc = "hit"
               THEN [@ EXCEPT !.pc = "hitDelay"]
               ELSE [@ EXCEPT !.pc = "sending", !.invocations = @ + 1]]
  /\ cleared' = FALSE
  /\ UNCHANGED <<config, asked, cache>>

\* delay(200) elapsed: the cached value is delivered.
HitDeliver(r) ==
  /\ req[r].pc = "hitDelay"
  /\ req' = [req EXCEPT ![r] = [@ EXCEPT !.pc = "done", !.notifications = @ + 1]]
  /\ cleared' = FALSE
  /\ UNCHANGED <<config, asked, cache>>

\* Mutant of TapCache: the response is delivered without being cached.
TapCache_Skip(c, k, data) == c

\* tap((data) => this.lruCache.set(cachedKey, data))
TapCache(c, k, data) == CacheSet(c, k, data)

\* The subscriber's next(data) after the tap.
DeliverPayload(q, o) ==
  [q EXCEPT !.pc = "done", !.last = Seen(o), !.result = PayloadResult(o.data),
            !.notifications = @ + 1]

\* The subscriber's error(e).
DeliverError(q, o, e) ==
  [q EXCEPT !.pc = "failed", !.last = Seen(o), !.result = e,
            !.notifications = @ + 1, !.delay = 0]

\* Mutant of ScheduleRetry: the transient error is also shown to the caller.
ScheduleRetry_Notifies(q, o, ms) ==
  [q EXCEPT !.pc = "waiting", !.last = Seen(o), !.delay = ms,
            !.result = RawError(o), !.notifications = @ + 1]

\* Mutant of ScheduleRetry: the next post is made at once, without the wait.
ScheduleRetry_Eager(q, o, ms) ==
  [q EXCEPT !.pc = "sending", !.last = Seen(o), !.delay = ms, !.invocations = @ + 1]

\* The notifier (timer) of a retry is subscribed: nothing reaches the caller.
ScheduleRetry(q, o, ms) ==
  [q EXCEPT !.pc = "waiting", !.last = Seen(o), !.delay = ms]

\* The transport call of request r settles with outcome o.
Respond(r, o) ==
  LET q == req[r] IN
  /\ q.pc = "sending"
  /\ IF o.kind = "ok"
     THEN /\ cache' = TapCache(cache, q.key, o.data)
          /\ req' = [req EXCEPT ![r] = DeliverPayload(q, o)]
     ELSE LET d == RetryOperator(o, q.soFar, q.key)
              q1 == IF d.handled
                    THEN [q EXCEPT !.soFar = @ + 1,
                                   !.dropped = @ \/ (HasEntry(cache, q.key)
                                      /\ ~HasEntry(RetryDelayCache(cache, o, q.key), q.key))]
                    ELSE q
          IN /\ cache' = IF d.handled THEN RetryDelayCache(cache, o, q.key) ELSE cache
             /\ IF d.throws
                THEN req' = [req EXCEPT ![r] = DeliverError(q1, o, d.error)]
                ELSE \E ms \in d.delays :
                       req' = [req EXCEPT ![r] = ScheduleRetry(q1, o, ms)]
  /\ cleared' = FALSE
  /\ UNCHANGED <<config, asked>>

\* Mutant of TimerFire: the timer never fires.
TimerFire_Stalls(r) ==
  /\ req[r].pc = "waiting"
  /\ UNCHANGED vars

\* The retry timer fires: the source is resubscribed, a new post is made.
TimerFire(r) ==
  /\ req[r].pc = "waiting"
  /\ req' = [req EXCEPT ![r] =
               [@ EXCEPT !.pc = "sending", !.invocations = @ + 1, !.delay = 0]]
  /\ cleared' = FALSE
  /\ UNCHANGED <<config, asked, cache>>

\* The caller unsubscribes while something is pending. A pending timer is
\* torn down; a pending post is not cancelled, its settlement is ignored.
Unsubscribe(r) ==
  /\ req[r].pc \in {"hitDelay", "sending", "waiting"}
  /\ req' = [req EXCEPT ![r] =
               [@ EXCEPT !.pc = IF req[r].pc = "sending" THEN "abandonedInFlight"
                                ELSE "abandoned",
                         !.delay = 0]]
  /\ cleared' = FALSE
  /\ UNCHANGED <<config, asked, cache>>

\* Mutant of SettleAbandoned: the late response is still written to the cache.
SettleAbandoned_Taps(r) ==
  /\ req[r].pc = "abandonedInFlight"
  /\ req' = [req EXCEPT ![r] = [@ EXCEPT !.pc = "abandoned"]]
  /\ \E p \in Payloads : cache' = TapCache(cache, req[r].key, p)
  /\ cleared' = FALSE
  /\ UNCHANGED <<config, asked>>

\* The post of an abandoned request settles: the closed subscriber drops it.
SettleAbandoned(r) ==
  /\ req[r].pc = "abandonedInFlight"
  /\ req' = [req EXCEPT ![r] = [@ EXCEPT !.pc = "abandoned"]]
  /\ cleared' = FALSE
  /\ UNCHANGED <<config, asked, cache>>

\* clearCache()
ClearCache ==
  /\ cache' = CacheClear(cache)
  /\ cleared' = TRUE
  /\ UNCHANGED <<config, asked, req>>

\* Time passes by one TTL period.
\* An age beyond the ttl is not counted further: the entry is stale for good.
Older(e) == [e EXCEPT !.age = IF IsStale(e) THEN @ ELSE @ + 1]

Tick ==
  /\ \E i \in 1..Len(cache) : ~IsStale(cache[i])
  /\ cache' = [i \in 1..Len(cache) |-> Older(cache[i])]
  /\ cleared' = FALSE
  /\ UNCHANGED <<config, asked, req>>

Next ==
  \/ \E r \in Requests, k \in Keys : Call(r, k)
  \/ \E r \in Requests : Subscribe(r)
  \/ \E r \in Requests : HitDeliver(r)
  \/ \E r \in Requests, o \in Outcomes : Respond(r, o)
  \/ \E r \in Requests : TimerFire(r)
  \/ \E r \in Requests : Unsubscribe(r)
  \/ \E r \in Requests : SettleAbandoned(r)
  \/ ClearCache
  \/ Tick

Spec == Init /\ [][Next]_vars

\* A client that serves one request only, with a larger retry setting: the
\* retry loop of a request on its own, over more attempts.
Solo == "r1"

\* The cache handed to the constructor is empty or already holds an entry.
SoloInit ==
  /\ maxRetries \in 0..SoloMaxRetries
  /\ cache \in {<< >>} \cup {<<[key |-> k, value |-> "p1", age |-> 0]>> : k \in Keys}
  /\ cleared = FALSE
  /\ req = [r \in Requests |-> IdleRequest]
  /\ max = CacheMax
  /\ NoRequestText

SoloNext ==
  \/ \E k \in Keys : Call(Solo, k)
  \/ Subscribe(Solo)
  \/ HitDeliver(Solo)
  \/ \E o \in Outcomes : Respond(Solo, o)
  \/ TimerFire(Solo)
  \/ Unsubscribe(Solo)
  \/ SettleAbandoned(Solo)
  \/ ClearCache
  \/ Tick

SoloSpec == SoloInit /\ [][SoloNext]_vars

\* ------------------------------------------------------------ query text
\* A text is a sequence of tokens: a word (letters and digits) or a single
\* other character. A cache key is a string.
Formats == {"json", "xml"}
Timeouts == {0, 60}
ElementTypes == {"node", "way"}
ElementIds == {123}
OutputFormats == {<<"out", ";">>, <<"out", " ", "geom", ";">>}
\* tags: a dictionary as a sequence of entries, each value a text.
TagSets == {<<[tag |-> "amenity", values |-> << <<"cafe">> >>]>>,
            <<[tag |-> "name", values |-> << <<"a", "&", "b">> >>]>>}
BoundingBoxes == {<<1, 2, 3, 4>>}
Circles == {[lat |-> 1, lon |-> 2, radius |-> 50]}
ElementLists == {<<"node">>, <<"node", "way">>}

\* The characters encodeURIComponent leaves as they are, besides words.
Unreserved == {"-", "_", ".", "!", "~", "*", "'", "(", ")"}

\* encodeURIComponent on one token.
EncodeToken(t) ==
  CASE t = "[" -> "%5B"
    [] t = "]" -> "%5D"
    [] t = ":" -> "%3A"
    [] t = ";" -> "%3B"
    [] t = " " -> "%20"
    [] t = "\"" -> "%22"
    [] t = "=" -> "%3D"
    [] t = "," -> "%2C"
    [] t = "&" -> "%26"
    [] OTHER -> t

EncodeURIComponent(text) == [i \in 1..Len(text) |-> EncodeToken(text[i])]

\* Mutant of FullQuery: the timeout clause is always written.
FullQuery_AlwaysTimeout(query) ==
  <<"[", "out", ":", format, "]">>
  \o <<"[", "timeout", ":", ToString(timeout), "]">>
  \o <<";">> \o query

\* fullQuery of query(): `[out:${this.format}]${timeoutEnabled};${query}`
FullQuery(query) ==
  LET timeoutEnabled == IF timeout # 0
                        THEN <<"[", "timeout", ":", ToString(timeout), "]">>
                        ELSE << >>
  IN <<"[", "out", ":", format, "]">> \o timeoutEnabled \o <<";">> \o query

\* The body of the post: `data=${encodeURIComponent(fullQuery)}`
PostBody(fullQuery) == <<"data=">> \o EncodeURIComponent(fullQuery)

RECURSIVE Flatten(_)
Flatten(ss) == IF ss = << >> THEN << >> ELSE Head(ss) \o Flatten(Tail(ss))

\* xs.join(sep) on texts.
RECURSIVE JoinTexts(_, _)
JoinTexts(xs, sep) ==
  IF xs = << >> THEN << >>
  ELSE IF Len(xs) = 1 THEN xs[1]
  ELSE xs[1] \o sep \o JoinTexts(Tail(xs), sep)

\* xs.join(sep) as a string.
RECURSIVE JoinString(_, _)
JoinString(xs, sep) ==
  IF xs = << >> THEN ""
  ELSE IF Len(xs) = 1 THEN xs[1]
  ELSE xs[1] \o sep \o JoinString(Tail(xs), sep)

Strings(ns) == [i \in 1..Len(ns) |-> ToString(ns[i])]

\* JSON.stringify(tags) for a dictionary of tag -> values.
JsonStringify(tags) ==
  "{" \o JoinString([i \in 1..Len(tags) |->
                      "\"" \o tags[i].tag \o "\":[\""
                      \o JoinString([j \in 1..Len(tags[i].values) |->
                                       JoinString(tags[i].values[j], "")], "\",\"")
                      \o "\"]"], ",")
      \o "}"

\* getElement: `${type}-${id}` and `${type}(${id}); ${outputFormat}`
ElementKey(type, id) == type \o "-" \o ToString(id)
ElementQuery(type, id, outputFormat) ==
  <<type, "(", ToString(id), ")", ";", " ">> \o outputFormat

\* One statement of getElementsByBoundingBox:
\* `${element}["${tag}"="${value}"](${minLat},${minLon},${maxLat},${maxLon});`
BoundingBoxStatement(bbox, element, tag, value) ==
  <<element, "[", "\"", tag, "\"", "=", "\"">> \o value \o <<"\"", "]", "(",
    ToString(bbox[1]), ",", ToString(bbox[2]), ",",
    ToString(bbox[3]), ",", ToString(bbox[4]), ")", ";">>

\* One statement of getElementsByRadius:
\* `${element}(around:${radius},${lat},${lon})["${tag}"="${value}"];`
RadiusStatement(c, element, tag, value) ==
  <<element, "(", "around", ":", ToString(c.radius), ",", ToString(c.lat),
    ",", ToString(c.lon), ")", "[", "\"", tag, "\"", "=", "\"">>
  \o value \o <<"\"", "]", ";">>

\* The statement for an area given as [bbox |-> ...] or [circle |-> ...].
Statement(area, element, tag, value) ==
  IF "bbox" \in DOMAIN area
  THEN BoundingBoxStatement(area.bbox, element, tag, value)
  ELSE RadiusStatement(area.circle, element, tag, value)

\* tagFilters: one parenthesised group per tag value, one statement per
\* element in it.
TagFilters(tags, elements, area) ==
  JoinTexts(
    Flatten([i \in 1..Len(tags) |->
      [j \in 1..Len(tags[i].values) |->
         <<"(">>
         \o JoinTexts([e \in 1..Len(elements) |->
                         Statement(area, elements[e], tags[i].tag, tags[i].values[j])],
                      <<" ">>)
         \o <<")", ";">>]]),
    <<" ">>)

\* getElementsByBoundingBox: key and query.
BoundingBoxKey(tags, bbox, elements) ==
  "bbox-" \o JsonStringify(tags) \o "-" \o JoinString(Strings(bbox), "-")
  \o "-" \o JoinString(elements, "-")
BoundingBoxQuery(tags, bbox, elements, outputFormat) ==
  TagFilters(tags, elements, [bbox |-> bbox]) \o <<" ">> \o outputFormat

\* getElementsByRadius: key and query.
RadiusKey(tags, c, elements) ==
  "radius-" \o JsonStringify(tags) \o "-" \o ToString(c.lat) \o "-"
  \o ToString(c.lon) \o "-" \o ToString(c.radius) \o "-" \o JoinString(elements, "-")
RadiusQuery(tags, c, elements, outputFormat) ==
  TagFilters(tags, elements, [circle |-> c]) \o <<" ">> \o outputFormat

\* The key and the query a call with arguments a gives.
KeyOfArgs(a) ==
  CASE a.method = "getElement" -> ElementKey(a.type, a.id)
    [] a.method = "getElementsByBoundingBox" -> BoundingBoxKey(a.tags, a.bbox, a.elements)
    [] a.method = "getElementsByRadius" -> RadiusKey(a.tags, a.circle, a.elements)
QueryOfArgs(a) ==
  CASE a.method = "getElement" -> ElementQuery(a.type, a.id, a.outputFormat)
    [] a.method = "getElementsByBoundingBox" ->
         BoundingBoxQuery(a.tags, a.bbox, a.elements, a.outputFormat)
    [] a.method = "getElementsByRadius" ->
         RadiusQuery(a.tags, a.circle, a.elements, a.outputFormat)

\* A request method called with arguments a: the cache lookup under the key,
\* and on a miss the post body that query() builds.
CallWith(r, a) ==
  /\ CachedOrQuery(r, KeyOfArgs(a))
  /\ args' = [args EXCEPT ![r] = a]
  /\ posted' = [posted EXCEPT ![r] =
                  IF Truthy(CacheGetValue(cache, KeyOfArgs(a)))
                  THEN NoText
                  ELSE PostBody(FullQuery(QueryOfArgs(a)))]

GetElement(r, type, id, outputFormat) ==
  CallWith(r, [method |-> "getElement", type |-> type, id |-> id,
               outputFormat |-> outputFormat])

GetElementsByBoundingBox(r, tags, bbox, elements, outputFormat) ==
  CallWith(r, [method |-> "getElementsByBoundingBox", tags |-> tags, bbox |-> bbox,
               elements |-> elements, outputFormat |-> outputFormat])

GetElementsByRadius(r, tags, c, elements, outputFormat) ==
  CallWith(r, [method |-> "getElementsByRadius", tags |-> tags, circle |-> c,
               elements |-> elements, outputFormat |-> outputFormat])

\* The transport answers with a payload or fails without a response.
QueryOutcomes == {o \in OkOutcomes : o.data = "p1"} \cup {NetworkOutcome}

\* Two requests with their arguments, on a client of any format and timeout.
QueryInit ==
  /\ maxRetries = 1
  /\ max = CacheMax
  /\ cache = << >>
  /\ cleared = FALSE
  /\ req = [r \in Requests |-> IdleRequest]
  /\ format \in Formats
  /\ timeout \in Timeouts
  /\ args = [r \in Requests |-> NoArgs]
  /\ posted = [r \in Requests |-> NoText]

QueryNext ==
  \/ \E r \in Requests, t \in ElementTypes, id \in ElementIds, f \in OutputFormats :
       GetElement(r, t, id, f)
  \/ \E r \in Requests, tags \in TagSets, b \in BoundingBoxes, els \in ElementLists,
        f \in OutputFormats : GetElementsByBoundingBox(r, tags, b, els, f)
  \/ \E r \in Requests, tags \in TagSets, c \in Circles, els \in ElementLists,
        f \in OutputFormats : GetElementsByRadius(r, tags, c, els, f)
  \/ \E r \in Requests : Subscribe(r)
  \/ \E r \in Requests : HitDeliver(r)
  \/ \E r \in Requests, o \in QueryOutcomes : Respond(r, o)

QuerySpec == QueryInit /\ [][QueryNext]_vars

\* The Observable of request q was returned on a hit: of(cached).
FromCache(q) == q.pc = "hit" \/ (q.pc # "miss" /\ q.invocations = 0)

\* The Observable a request method returned is subscribed once more after its
\* earlier subscription has ended: of(cached) delivers the captured value
\* again, defer(() => post) makes a new post under a new retry counter.
SubscribeAgain(r) ==
  /\ req[r].pc \in {"done", "failed", "abandoned"}
  /\ req[r].notifications < MaxSubscriptions
  /\ req[r].invocations < MaxSubscriptions
  /\ req' = [req EXCEPT ![r] =
               IF FromCache(req[r])
               THEN [@ EXCEPT !.pc = "hitDelay"]
               ELSE [@ EXCEPT !.pc = "sending", !.soFar = 0, !.invocations = @ + 1]]
  /\ cleared' = FALSE
  /\ UNCHANGED <<config, asked, cache>>

\* Two requests whose Observables may be subscribed more than once, on a
\* client that makes no retries.
ObservableInit ==
  /\ maxRetries = 1
  /\ cache = << >>
  /\ cleared = FALSE
  /\ req = [r \in Requests |-> IdleRequest]
  /\ max = CacheMax
  /\ NoRequestText

ObservableNext ==
  \/ \E r \in Requests, k \in Keys : Call(r, k)
  \/ \E r \in Requests : Subscribe(r)
  \/ \E r \in Requests : SubscribeAgain(r)
  \/ \E r \in Requests : HitDeliver(r)
  \/ \E r \in Requests, o \in QueryOutcomes : Respond(r, o)
  \/ \E r \in Requests : Unsubscribe(r)
  \/ \E r \in Requests : SettleAbandoned(r)
  \/ ClearCache
  \/ Tick

ObservableSpec == ObservableInit /\ [][ObservableNext]_vars

\* Two requests on a client whose cache of capacity LruMax is full when it is
\* handed to the constructor, over more keys than the cache can hold.
LruKeys == {"k1", "k2", "k3"}

LruInit ==
  /\ maxRetries = 1
  /\ max = LruMax
  /\ cache \in {c \in [1..LruMax -> [key : LruKeys, value : {"p1"}, age : {0}]] :
                  \A i, j \in 1..LruMax : i # j => c[i].key # c[j].key}
  /\ cleared = FALSE
  /\ req = [r \in Requests |-> IdleRequest]
  /\ NoRequestText

LruNext ==
  \/ \E r \in Requests, k \in LruKeys : Call(r, k)
  \/ \E r \in Requests : Subscribe(r)
  \/ \E r \in Requests : HitDeliver(r)
  \/ \E r \in Requests, o \in Outcomes : Respond(r, o)

LruSpec == LruInit /\ [][LruNext]_vars

\* The scheduling the claims about termination assume: a pending post
\* eventually settles, a pending timer eventually fires.
FairSoloSpec ==
  /\ SoloSpec
  /\ WF_vars(\E o \in Outcomes : Respond(Solo, o))
  /\ WF_vars(TimerFire(Solo))
  /\ WF_vars(HitDeliver(Solo))

TypeOK ==
  /\ maxRetries \in Nat
  /\ Len(cache) <= max

\* ------------------------------------------------------------------ claims
Terminal == {"done", "failed"}
\* The latest transport outcome of q was a response with a transient status.
LastRetryable(q) == q.last.kind = "http" /\ q.last.status \in RetryableStatuses
\* The latest transport outcome of q was a 400, an unlisted status or no response.
LastFatal(q) ==
  \/ q.last.kind = "network"
  \/ q.last.kind = "http" /\ q.last.status \notin RetryableStatuses
\* e is the error built on exhaustion.
IsMaxRetriesExceeded(e) ==
  /\ e.class = "OverpassError"
  /\ \E i \in 1..Len(e.message) : e.message[i] = "Max retries exceeded. Request failed "
\* In this step the pending transport call of r settled and r took it.
Settled(r) == req[r].pc = "sending" /\ req'[r].pc \in {"done", "failed", "waiting"}
\* The entries of c under keys other than k, in order.
Others(c, k) == SelectSeq(c, LAMBDA e : e.key # k)

\* C1: with maxRetries = R the transport is invoked at most R + 1 times for a
\* request, one invocation per iteration of the retry loop (an iteration is
\* the first subscription or a resubscription after a counted failure).
C1_AtMostRPlusOne ==
  \A r \in Requests :
    /\ req[r].invocations <= maxRetries + 1
    /\ req[r].invocations <= req[r].soFar + 1
    /\ (req[r].pc = "sending" => req[r].invocations = req[r].soFar + 1)
    /\ (req[r].pc = "waiting" => req[r].invocations = req[r].soFar)

\* A request that used up its whole budget on transient failures.
C1_Witness ==
  \E r \in Requests :
    /\ maxRetries >= 2
    /\ req[r].pc = "failed"
    /\ LastRetryable(req[r])
    /\ req[r].invocations = maxRetries

\* C2 (as claimed): with maxRetries = R >= 1, a request whose first R
\* attempts fail with a transient status goes on to attempt R + 1: it does
\* not end in failure on transient statuses before R + 1 invocations, and
\* when attempt R + 1 succeeds it has made R + 1 invocations, delivered the
\* payload and the cache holds it.
C2_Claim ==
  \A r \in Requests :
    maxRetries >= 1 =>
      /\ (req[r].pc = "failed" /\ LastRetryable(req[r])
            => req[r].invocations = maxRetries + 1)
      /\ (req[r].pc = "done" /\ req[r].soFar = maxRetries
            => /\ req[r].invocations = maxRetries + 1
               /\ req[r].result.class = "payload")

\* C3 (as claimed): for every maxRetries >= 0, a request whose attempts all
\* fail with a transient status ends with the MaxRetriesExceeded error, and
\* at that moment the cache holds no entry for its key.
C3_Claim ==
  [][\A r \in Requests :
       (Settled(r) /\ req'[r].pc = "failed" /\ LastRetryable(req'[r]))
         => /\ IsMaxRetriesExceeded(req'[r].result)
            /\ ~HasEntry(cache', req'[r].key)]_vars

\* C4: a 400 response is never followed by a retry: whenever the latest
\* transport outcome of a request is a 400 the request has terminated with
\* an error, so no timer is pending and no further transport call is made.
C4_NoRetryOn400 ==
  \A r \in Requests :
    (req[r].last.kind = "http" /\ req[r].last.status = 400)
      => /\ req[r].pc = "failed"
         /\ req[r].result.class \notin {"none", "payload"}
         /\ req[r].notifications = 1

\* A 400 ended a request that still had retry budget.
C4_Witness ==
  \E r \in Requests :
    /\ req[r].last.status = 400
    /\ req[r].pc = "failed"
    /\ req[r].soFar < maxRetries

\* C5 (as claimed): a request method called while the cache holds an
\* unexpired entry for its key returns the cached payload and makes no
\* transport invocation.
C5_Claim ==
  [][\A r \in Requests :
       (req[r].pc = "idle" /\ req'[r].pc # "idle" /\ HasFresh(cache, req'[r].key))
         => /\ req'[r].pc = "hit"
            /\ req'[r].result =
                 PayloadResult(cache[IndexOf(cache, req'[r].key)].value)
            /\ req'[r].invocations = 0]_vars

\* C6: when a successful transport response is delivered to the caller, the
\* cache already holds that payload under the request's key.
C6_CachedBeforeDelivery ==
  [][\A r \in Requests :
       (Settled(r) /\ req'[r].pc = "done")
         => Holds(cache', req'[r].key, req'[r].result.data)]_vars

\* A request served by the transport whose payload is in the cache.
C6_Witness ==
  \E r \in Requests :
    /\ req[r].pc = "done"
    /\ req[r].invocations >= 1
    /\ Holds(cache, req[r].key, req[r].result.data)

\* In this step r took a failure that the classifier rates Fatal: a 400, an
\* unlisted status or no response, on an attempt that leaves retry budget.
TookFatal(r) ==
  /\ Settled(r)
  /\ LastFatal(req'[r])
  /\ req[r].soFar + 1 < maxRetries

\* C7 (as claimed): a failure classified Fatal terminates the request at once
\* whatever budget remains and leaves the cache unchanged, so an entry a
\* concurrent request wrote under the same key is still there.
C7_Claim ==
  [][\A r \in Requests :
       TookFatal(r) => req'[r].pc = "failed" /\ cache' = cache]_vars

\* C7 (amended): a failure classified Fatal terminates the request at once
\* whatever budget remains, with no further transport invocation, and removes
\* the cache entry under the request's key, also one written by a concurrent
\* request; the entries under other keys are unchanged.
C7_FatalDropsOwnKey ==
  [][\A r \in Requests :
       TookFatal(r)
         => /\ req'[r].pc = "failed"
            /\ ~IsMaxRetriesExceeded(req'[r].result)
            /\ req'[r].invocations = req[r].invocations
            /\ ~HasEntry(cache', req'[r].key)
            /\ cache' = Others(cache, req'[r].key)]_vars

\* A 400 with budget left removed an entry another request had written.
C7_Witness ==
  \E r \in Requests :
    /\ req[r].pc = "failed"
    /\ req[r].last.status = 400
    /\ req[r].soFar = 1
    /\ maxRetries >= 2
    /\ req[r].dropped

\* C8: a request delivers at most one notification, a payload or an error; a
\* failure after which a retry is scheduled delivers nothing; a request that
\* has delivered makes no further transport invocation.
C8_OneTerminalNotification ==
  [][\A r \in Requests :
       /\ req'[r].notifications <= 1
       /\ (req'[r].notifications = 1 <=> req'[r].pc \in Terminal)
       /\ (req'[r].pc = "done" <=> req'[r].result.class = "payload" /\ req'[r].notifications = 1)
       /\ (req'[r].pc = "waiting" =>
             req'[r].notifications = 0 /\ req'[r].result = NoResult)
       /\ (req[r].pc \in Terminal => req'[r] = req[r])]_vars

\* A request that failed once, was retried and then delivered its payload.
C8_Witness ==
  \E r \in Requests :
    /\ req[r].pc = "done"
    /\ req[r].soFar >= 1
    /\ req[r].notifications = 1

\* C9 (as claimed): for every maxRetries >= 0 the error a failed request
\* delivers is an OverpassError built by the pipeline, never the raw error.
C9_Claim ==
  \A r \in Requests :
    req[r].pc = "failed" => req[r].result.class = "OverpassError"

\* C10 (as claimed): the backoff wait after the n-th failure, the first one
\* counted as n = 0, is below 2^n * 1000 ms.
C10_Claim ==
  \A r \in Requests :
    (req[r].pc = "waiting" /\ req[r].last.status \in {500, 502, 503, 504})
      => /\ req[r].delay >= 0
         /\ req[r].delay < Pow2(req[r].soFar - 1) * BaseDelayMs

\* In this step r took a failed response on an attempt that leaves retry
\* budget: the exhaustion check of the delay callback does not apply.
TookWithBudget(r) == Settled(r) /\ req[r].soFar + 1 < maxRetries
\* retry-after header texts that are an integer count of seconds.
WellFormedHeaders == {"0", "1", "7"}
SecondsOf(h) == CASE h = "0" -> 0 [] h = "1" -> 1 [] h = "7" -> 7

\* C11: a 429 response with a retry-after header of N seconds, taken while
\* retry budget remains, schedules a wait of exactly N * 1000 ms before the
\* next transport attempt, whatever the attempt index, with no jitter.
C11_RetryAfterExact ==
  [][\A r \in Requests :
       (/\ TookWithBudget(r)
        /\ req'[r].last.status = 429
        /\ req'[r].last.retryAfter \in WellFormedHeaders)
         => /\ req'[r].pc = "waiting"
            /\ req'[r].delay = SecondsOf(req'[r].last.retryAfter) * 1000
            /\ req'[r].invocations = req[r].invocations]_vars

\* A request waits 7000 ms after a second failure, a 429 with retry-after: 7.
C11_Witness ==
  \E r \in Requests :
    /\ req[r].pc = "waiting"
    /\ req[r].soFar = 2
    /\ req[r].last.status = 429
    /\ req[r].last.retryAfter = "7"
    /\ req[r].delay = 7000

\* C12 (as claimed): a 429 response whose retry-after header is absent or is
\* not a well-formed integer gets its wait from the backoff formula: a number
\* of milliseconds in [0, 2^attempt * 1000), attempt as the callback sees it.
C12_Claim ==
  \A r \in Requests :
    (/\ req[r].pc = "waiting"
     /\ req[r].last.status = 429
     /\ req[r].last.retryAfter \notin WellFormedHeaders)
      => /\ req[r].delay # NaN
         /\ req[r].delay >= 0
         /\ req[r].delay < Pow2(req[r].soFar) * BaseDelayMs

\* The message of e has the part t.
HasPart(e, t) == \E i \in 1..Len(e.message) : e.message[i] = t

\* C13 (as claimed): the budget check comes before every status check: a
\* transport failure on an attempt whose index has reached maxRetries ends
\* the request with 'Max retries exceeded', whatever the failure is (400,
\* an unlisted status, no response).
C13_Claim ==
  [][\A r \in Requests :
       (/\ Settled(r)
        /\ req'[r].last.kind \in {"http", "network"}
        /\ req[r].soFar + 1 >= maxRetries)
         => /\ req'[r].pc = "failed"
            /\ IsMaxRetriesExceeded(req'[r].result)]_vars

\* C14: a 500, 502, 503 or 504 taken while retry budget remains schedules
\* another attempt after a wait from the backoff formula, a number of
\* milliseconds in [0, 2^attempt * 1000) with the attempt index the callback
\* is given; a retry-after header on the response changes nothing.
C14_ServerErrorBackoffOnly ==
  [][\A r \in Requests :
       (TookWithBudget(r) /\ req'[r].last.status \in {500, 502, 503, 504})
         => /\ req'[r].pc = "waiting"
            /\ req'[r].delay # NaN
            /\ req'[r].delay >= 0
            /\ req'[r].delay < Pow2(req'[r].soFar) * BaseDelayMs
            /\ req'[r].invocations = req[r].invocations]_vars

\* A 503 with retry-after: 7 is followed by a wait below 2000 ms.
C14_Witness ==
  \E r \in Requests :
    /\ req[r].pc = "waiting"
    /\ req[r].last.status = 503
    /\ req[r].last.retryAfter = "7"
    /\ req[r].soFar = 1
    /\ req[r].delay < 2000

\* C15: a transport error without a response is never retried: a request
\* whose latest outcome is one has failed, and when the exhaustion check did
\* not apply (attempt < maxRetries) its error is 'Something went wrong'.
C15_NetworkFailureFatal ==
  \A r \in Requests :
    req[r].last.kind = "network"
      => /\ req[r].pc = "failed"
         /\ req[r].notifications = 1
         /\ (req[r].soFar < maxRetries
               => /\ req[r].result.class = "OverpassError"
                  /\ HasPart(req[r].result, "Something went wrong"))

\* A connection-level failure ended a request that had budget left.
C15_Witness ==
  \E r \in Requests :
    /\ req[r].last.kind = "network"
    /\ req[r].pc = "failed"
    /\ req[r].soFar = 1
    /\ maxRetries >= 2

Abandoned == {"abandoned", "abandonedInFlight"}

\* C17: once the caller has unsubscribed, the request does nothing more: the
\* unsubscription and every later step of the request (the settlement of a
\* post that was pending) leave the cache as it is, start no attempt and
\* deliver nothing.
C17_AbandonedIsInert ==
  [][\A r \in Requests :
       /\ (req[r].pc \notin Abandoned /\ req'[r].pc \in Abandoned)
            => /\ cache' = cache
               /\ req'[r].invocations = req[r].invocations
               /\ req'[r].notifications = req[r].notifications
       /\ req[r].pc \in Abandoned
            => /\ req'[r].pc \in Abandoned
               /\ req'[r].invocations = req[r].invocations
               /\ req'[r].notifications = req[r].notifications
               /\ req'[r].result = req[r].result
               /\ (req'[r] # req[r] => cache' = cache)]_vars

\* A post abandoned in flight has settled; nothing was delivered or cached.
C17_Witness ==
  \E r \in Requests :
    /\ req[r].pc = "abandoned"
    /\ req[r].last.kind = "none"
    /\ req[r].invocations = 1
    /\ req[r].notifications = 0
    /\ ~HasEntry(cache, req[r].key)

\* C18: requests for the same key are not coalesced: a missed request makes
\* its own transport invocation when it is subscribed, whatever other request
\* is pending, and each success writes the cache, so that the entry is the
\* payload of the success that came last.
C18_NotCoalesced ==
  [][\A r \in Requests :
       /\ (req[r].pc = "miss" /\ req'[r].pc # "miss")
            => /\ req'[r].pc = "sending"
               /\ req'[r].invocations = req[r].invocations + 1
       /\ (req[r].pc = "sending" /\ req'[r].pc = "done")
            => Holds(cache', req[r].key, req'[r].result.data)]_vars

\* Two requests for one key each made an invocation and got different
\* payloads; the cache holds the payload of one of them only.
C18_Witness ==
  /\ req["r1"].pc = "done" /\ req["r2"].pc = "done"
  /\ req["r1"].key = req["r2"].key
  /\ req["r1"].invocations = 1 /\ req["r2"].invocations = 1
  /\ req["r1"].result.data = "p1" /\ req["r2"].result.data = "p2"
  /\ Holds(cache, req["r1"].key, "p2")

\* C19: when every pending post eventually settles and every pending timer
\* eventually fires, a subscribed request eventually ends: it delivers a
\* payload or an error, unless the caller abandons it.
C19_EventuallyTerminates ==
  \A r \in Requests :
    (req[r].pc \in {"hitDelay", "sending", "waiting"})
      ~> (req[r].pc \in Terminal \cup Abandoned)

\* A request ended after its retries.
C19_Witness ==
  /\ req[Solo].pc \in Terminal
  /\ req[Solo].invocations = SoloMaxRetries

\* C20: right after clearCache() the cache has no entry, whatever requests are
\* in flight, and a request issued then misses; a missed request makes a
\* transport invocation when it is subscribed.
C20_ClearEmpties ==
  [][/\ cleared' => Len(cache') = 0
     /\ \A r \in Requests :
          /\ (cleared /\ req[r].pc = "idle" /\ req'[r].pc # "idle")
               => req'[r].pc = "miss"
          /\ (req[r].pc = "miss" /\ req'[r].pc = "sending")
               => req'[r].invocations = req[r].invocations + 1]_vars

\* A key was fetched and cached, the cache was cleared while another request
\* was in flight, and a request for that key was issued again: it missed.
C20_Witness ==
  \E r, s \in Requests :
    /\ req[r].pc = "done" /\ req[r].result.data = "p1"
    /\ req[s].pc = "miss" /\ req[s].key = req[r].key
    /\ Len(cache) = 0

\* The entry is older than the TTL.
Expired(e) == e.age > ttl
\* In this step request r was issued (its method was called).
Issued(r) == req[r].pc = "idle" /\ req'[r].pc # "idle"

\* C21: an entry is returned by a lookup of its key while its age is within
\* the TTL and is absent for a lookup once its age exceeds the TTL, slot
\* occupied or not; a lookup does not renew the age; a request issued for an
\* expired key is a miss like any other: the expired entry is gone, the
\* request makes a transport invocation and its payload is cached.
C21_ExpiredIsAbsent ==
  [][/\ \A i \in 1..Len(cache) :
          CacheGetValue(cache, cache[i].key)
            = IF Expired(cache[i]) THEN Undefined ELSE cache[i].value
     /\ \A r \in Requests :
          /\ Issued(r) =>
               LET k == req'[r].key
                   i == IndexOf(cache, k)
               IN i # 0 =>
                    IF Expired(cache[i])
                    THEN req'[r].pc = "miss" /\ ~HasEntry(cache', k)
                    ELSE /\ Truthy(cache[i].value)
                            => /\ req'[r].pc = "hit"
                               /\ req'[r].result = PayloadResult(cache[i].value)
                         /\ HasEntry(cache', k)
                         /\ cache'[IndexOf(cache', k)].age = cache[i].age
          /\ (req[r].pc = "miss" /\ req'[r].pc # "miss")
               => /\ req'[r].pc = "sending"
                  /\ req'[r].invocations = 1
          /\ (req[r].pc = "sending" /\ req'[r].pc = "done")
               => Holds(cache', req[r].key, req'[r].result.data)]_vars

\* The payload a request fetched has expired and still occupies its slot.
C21_Witness ==
  \E r \in Requests :
    /\ req[r].pc = "done"
    /\ req[r].invocations = 1
    /\ HasEntry(cache, req[r].key)
    /\ Expired(cache[IndexOf(cache, req[r].key)])
    /\ cache[IndexOf(cache, req[r].key)].value = req[r].result.data

\* C22: the cache never holds more entries than its capacity.
C22_WithinCapacity == Len(cache) <= max /\ max = CacheMax

\* Two keys were fetched and written into a cache of capacity one.
C22_Witness ==
  /\ Len(cache) = max
  /\ \E r, s \in Requests :
       /\ req[r].pc = "done" /\ req[s].pc = "done"
       /\ req[r].key # req[s].key
       /\ req[r].invocations = 1 /\ req[s].invocations = 1

\* The keys of c, least recently used first.
KeysOf(c) == [i \in 1..Len(c) |-> c[i].key]
\* The keys of c other than k, in order.
KeysBut(c, k) == KeysOf(Others(c, k))

\* C23: the cache orders its entries by use, a write and a hit both being a
\* use: the key written or served moves to the most recent place and the
\* other keys keep their order; a successful request that writes a new key
\* into a full cache evicts exactly the least recently used entry.
C23_EvictsLeastRecentlyUsed ==
  [][\A r \in Requests :
       /\ (Issued(r) /\ req'[r].pc = "hit")
            => /\ KeysOf(cache') = KeysBut(cache, req'[r].key) \o <<req'[r].key>>
               /\ (Len(cache) > 1 => cache'[1].key # req'[r].key)
       /\ (req[r].pc = "sending" /\ req'[r].pc = "done")
            => IF HasEntry(cache, req[r].key) \/ Len(cache) < max
               THEN KeysOf(cache') = KeysBut(cache, req[r].key) \o <<req[r].key>>
               ELSE KeysOf(cache') = Tail(KeysOf(cache)) \o <<req[r].key>>]_vars

\* The cache was full with k1 and another key; k1 was served as a hit and k3
\* was then fetched: k1 is still cached, the other key was evicted.
C23_Witness ==
  /\ req["r1"].pc = "done" /\ req["r1"].key = "k1" /\ req["r1"].invocations = 0
  /\ req["r2"].pc = "done" /\ req["r2"].key = "k3" /\ req["r2"].invocations = 1
  /\ KeysOf(cache) = <<"k1", "k3">>

\* The characters of the query texts that a form field cannot carry raw.
Reserved == {"[", "]", ":", ";", " ", "\"", "=", ",", "&"}

\* Percent-decoding of one token.
DecodeToken(t) ==
  CASE t = "%5B" -> "["
    [] t = "%5D" -> "]"
    [] t = "%3A" -> ":"
    [] t = "%3B" -> ";"
    [] t = "%20" -> " "
    [] t = "%22" -> "\""
    [] t = "%3D" -> "="
    [] t = "%2C" -> ","
    [] t = "%26" -> "&"
    [] OTHER -> t

\* C24: the body of a post is the single form field 'data=' followed by the
\* percent-encoded full query text, and that text is '[out:<format>]', then
\* '[timeout:<seconds>]' exactly when the timeout is not 0, then ';' and the
\* query body the request method built.
C24_FullQueryText ==
  \A r \in Requests :
    posted[r] # NoText =>
      LET body == posted[r]
          text == [i \in 1..(Len(body) - 1) |-> DecodeToken(body[i + 1])]
          preamble == <<"[", "out", ":", format, "]">>
          clause == <<"[", "timeout", ":", ToString(timeout), "]">>
          query == QueryOfArgs(args[r])
      IN /\ body[1] = "data="
         /\ \A i \in 2..Len(body) : body[i] \notin Reserved
         /\ text = IF timeout # 0
                   THEN preamble \o clause \o <<";">> \o query
                   ELSE preamble \o <<";">> \o query
         /\ (timeout = 0 => \A i \in 1..Len(text) : text[i] # "timeout")

\* A bounding-box request on a client with timeout 0 posted a query whose tag
\* value holds an ampersand, and got its payload.
C24_Witness ==
  \E r \in Requests :
    /\ timeout = 0
    /\ req[r].pc = "done"
    /\ req[r].invocations = 1
    /\ args[r].method = "getElementsByBoundingBox"
    /\ \E i \in 2..Len(posted[r]) : posted[r][i] = "%26"

\* C30 (as claimed): two requests of one client with the same cache key ask
\* for the same full query text, and a request served from the cache gets a
\* payload that was fetched with the text it asks for.
C30_Claim ==
  \A r, s \in Requests :
    (/\ args[r] # NoArgs
     /\ args[s] # NoArgs
     /\ req[r].key = req[s].key)
      => /\ FullQuery(QueryOfArgs(args[r])) = FullQuery(QueryOfArgs(args[s]))
         /\ (req[r].pc = "hit" /\ posted[s] # NoText)
              => posted[s] = PostBody(FullQuery(QueryOfArgs(args[r])))

\* In this step r took a failure after which a retry is scheduled.
TookRetry(r) == Settled(r) /\ req'[r].pc = "waiting"

\* C25 (as claimed): a retryable failure after which a retry is scheduled
\* leaves the cache unchanged, so an entry a concurrent request wrote under
\* the same key survives it.
C25_Claim ==
  [][\A r \in Requests : TookRetry(r) => cache' = cache]_vars

\* C25 (amended): a retryable failure after which a retry is scheduled removes
\* the cache entry under the request's key, also one written by a concurrent
\* request, and leaves the entries under other keys unchanged; the wait and
\* the next attempt change nothing in the cache.
C25_RetryDropsOwnKey ==
  [][\A r \in Requests :
       /\ TookRetry(r)
            => /\ LastRetryable(req'[r])
               /\ ~HasEntry(cache', req'[r].key)
               /\ cache' = Others(cache, req'[r].key)
       /\ (req[r].pc = "waiting" /\ req'[r] # req[r]) => cache' = cache]_vars

\* A transient failure, after which the request waits for its retry, removed
\* the entry another request had written under the same key.
C25_Witness ==
  \E r, s \in Requests :
    /\ req[r].pc = "waiting"
    /\ req[r].dropped
    /\ req[s].pc = "done"
    /\ req[s].key = req[r].key
    /\ ~HasEntry(cache, req[r].key)

\* C26: retry state is per request. A request starts with attempt counter 0;
\* a step of one request changes nothing of another; and what follows a
\* failure depends on the request's own counter only: with budget of its own
\* a transient failure is retried, without it the request is exhausted,
\* whatever the other requests have been through.
C26_RetryStatePerRequest ==
  [][\A r \in Requests :
       /\ Issued(r) => req'[r].soFar = 0
       /\ req'[r] # req[r] => \A s \in Requests \ {r} : req'[s] = req[s]
       /\ (Settled(r) /\ req'[r].last.kind \in {"http", "network"} /\ maxRetries > 0)
            => /\ req'[r].soFar = req[r].soFar + 1
               /\ (LastRetryable(req'[r]) /\ req'[r].soFar < maxRetries)
                    => req'[r].pc = "waiting"
               /\ req'[r].soFar >= maxRetries
                    => /\ req'[r].pc = "failed"
                       /\ IsMaxRetriesExceeded(req'[r].result)]_vars

\* One request has used up its budget; another for the same key, one failure
\* behind, is waiting for its retry.
C26_Witness ==
  \E r, s \in Requests :
    /\ req[r].pc = "failed"
    /\ IsMaxRetriesExceeded(req[r].result)
    /\ req[r].soFar = maxRetries
    /\ req[s].pc = "waiting"
    /\ req[s].soFar = 1
    /\ req[s].key = req[r].key

\* C27 (as claimed): an error that is not a transport (Axios) error is never
\* retried: whatever the attempt index and the budget, the request ends at
\* once with the error 'Unknown error occurred', and the cache is unchanged.
C27_Claim ==
  [][\A r \in Requests :
       (Settled(r) /\ req'[r].last.kind = "other")
         => /\ req'[r].pc = "failed"
            /\ req'[r].invocations = req[r].invocations
            /\ req'[r].result.class = "OverpassError"
            /\ HasPart(req'[r].result, "Unknown error occurred")
            /\ cache' = cache]_vars

\* C28: the attempts of a request follow one another: a transport invocation
\* is made only by a request that has none outstanding, either the first one
\* when it is subscribed or the next one when the wait after a failure has
\* elapsed; while an invocation is outstanding or a wait is running, no
\* invocation is made.
C28_AttemptsSequential ==
  [][\A r \in Requests :
       /\ req'[r].invocations \in {req[r].invocations, req[r].invocations + 1}
       /\ req'[r].invocations = req[r].invocations + 1
            <=> (req[r].pc \in {"miss", "waiting"} /\ req'[r].pc = "sending")
       /\ (req[r].pc = "waiting" /\ req'[r].pc = "sending")
            => /\ req[r].last.kind = "http"
               /\ req[r].invocations = req[r].soFar
       /\ req'[r].pc = "waiting" => req[r].pc \in {"sending", "waiting"}
       /\ (req[r].pc = "sending" /\ req'[r].pc = "sending") => req'[r] = req[r]]_vars

\* The third attempt of a request is outstanding, after two failures and waits.
C28_Witness ==
  /\ req[Solo].pc = "sending"
  /\ req[Solo].invocations = 3
  /\ req[Solo].soFar = 2

\* C29 (as claimed): after clearCache() the cache stays empty until a request
\* issued after the clear succeeds: a request that was in flight (its post or
\* its wait pending) when clearCache() was called adds no entry afterwards.
C29_Claim ==
  [][cleared =>
       \A r \in Requests :
         (req[r].pc \in {"sending", "waiting"} /\ req'[r] # req[r])
           => Len(cache') = 0]_vars

\* In this step the Observable of request r was subscribed.
Subscribed(r) ==
  /\ req[r].pc \in {"hit", "miss", "done", "failed", "abandoned"}
  /\ req'[r].pc \in {"hitDelay", "sending"}

\* C31: hit or miss is decided once, when the request method is called. An
\* Observable returned on a miss does nothing but be subscribed, and every
\* subscription makes a transport invocation, whatever the cache holds by
\* then; an Observable returned on a hit makes none and delivers the value
\* captured at the call, whatever has become of the entry.
C31_DecidedAtCall ==
  [][\A r \in Requests :
       /\ req[r].pc # "idle" => req'[r].key = req[r].key
       /\ (req[r].pc \in {"hit", "miss"} /\ req'[r] # req[r]) => Subscribed(r)
       /\ Subscribed(r)
            => IF FromCache(req[r])
               THEN /\ req'[r].pc = "hitDelay"
                    /\ req'[r].invocations = 0
                    /\ req'[r].result = req[r].result
               ELSE /\ req'[r].pc = "sending"
                    /\ req'[r].invocations = req[r].invocations + 1
       /\ (req[r].pc = "hitDelay" /\ req'[r].pc = "done")
            => /\ req'[r].result = req[r].result
               /\ req'[r].invocations = 0
               /\ cache' = cache]_vars

\* An Observable returned on a miss has fetched and cached its payload and is
\* subscribed again: it posts again although its key is cached.
C31_Witness ==
  /\ req[Solo].pc = "sending"
  /\ req[Solo].invocations = 2
  /\ req[Solo].soFar = 0
  /\ Holds(cache, req[Solo].key, "p1")

\* C32 (as claimed): a payload that a successful request wrote to the cache is
\* served as a hit, with no transport invocation, to a request for the same
\* key issued while the entry is within the TTL, whatever the payload is.
C32_Claim ==
  [][\A r, s \in Requests :
       (/\ Issued(r)
        /\ req[s].pc = "done"
        /\ req[s].invocations >= 1
        /\ req[s].key = req'[r].key
        /\ Holds(cache, req[s].key, req[s].result.data))
         => /\ req'[r].pc = "hit"
            /\ req'[r].result.data = req[s].result.data
            /\ req'[r].invocations = 0]_vars

====
